---------------------------- MODULE Spec2Model ----------------------------
(***************************************************************************)
(* A state-machine model of the VECTRA simulation core: simulate_day and   *)
(* the steps it calls (control.c, midge_dynamics.c, movement.c, farm_epi.c *)
(* and simulation.c).                                                      *)
(*                                                                         *)
(* Representation of C values.                                             *)
(*  - A `double` that holds a rate, probability, temperature or a midge    *)
(*    density is a fixed-point integer counting units of 1/SCALE; products *)
(*    and quotients round towards minus infinity (Mul, Div).               *)
(*  - The host compartments s_sheep, i_sheep[k], r_sheep (and cattle) are *)
(*    doubles that hold whole animals; they are integers here, so the int  *)
(*    casts are identities.                                                *)
(*  - A draw of the random generator is an existentially quantified value  *)
(*    of the draw's support, cut to a small set that keeps the end points. *)
(***************************************************************************)
EXTENDS Integers, Sequences, FiniteSets, TLC

(***************************************************************************)
(* Bounds of the model and program constants                               *)
(***************************************************************************)
\* grid dimensions of the model (SimulationState.h sets 244 x 131)
MAX_GRID_S == 3
MAX_GRID_E == 4
\* simulate_day calls in one run
MaxCalls == 2

MaxCallsControl == 3
\* largest negative-binomial draw considered (the shipment size is 1 + the draw)
MaxNegBinomial == 1
\* one unit of a fixed-point double is 1/SCALE
SCALE == 1000
\* length of the weather year: temp_grid[..][..][365] and the % 365
DAYS_PER_YEAR == 365
\* the eleven values of t in `for (t = 0.0; t < 1.0; t += 0.1)`: ten additions
\* of the double 0.1 give 0.9999999999999999, which is still below 1.0
FARM_SUBSTEPS == 11
\* bites_per_animal is cut at 5000.0
MAX_BITES == 5000
\* sheep_mort_rate = 0.0055, in units of 1/10000
SHEEP_MORT_RATE == 55
\* surv_radius = 15000.0 in perform_active_surveillance
SURV_RADIUS == 15000
\* farms of the roster
NumFarms == 2
\* Erlang stages of the infectious period, for sheep and for cattle
NumInfStages == 2
\* stages of the extrinsic incubation period
NumEipStages == 2
\* largest Poisson draw considered
MaxPoisson == 2

(***************************************************************************)
(* Fixed-point arithmetic and the libm functions the code calls            *)
(***************************************************************************)
Mul(a, b) == (a * b) \div SCALE
Div(a, b) == (a * SCALE) \div b

int_min(a, b) == IF a < b THEN a ELSE b

\* exp(x) for a fixed-point x: halving of the argument, then the series
RECURSIVE exp(_)
exp(x) ==
    IF x < -20 * SCALE THEN 0
    ELSE IF x > SCALE \div 2 \/ x < -(SCALE \div 2)
         THEN LET h == exp(x \div 2) IN Mul(h, h)
         ELSE LET x2 == Mul(x, x)
                  x3 == Mul(x2, x)
                  x4 == Mul(x3, x)
              IN  SCALE + x + x2 \div 2 + x3 \div 6 + x4 \div 24

\* log(y) for a fixed-point y > 0: y is brought into [1, 2), then the series
\* of 2 * atanh((y - 1) / (y + 1))
RECURSIVE log(_)
log(y) ==
    IF y >= 2 * SCALE THEN 693 + log(y \div 2)
    ELSE IF y < SCALE THEN log(2 * y) - 693
    ELSE LET w  == Div(y - SCALE, y + SCALE)
             w3 == Mul(Mul(w, w), w)
             w5 == Mul(Mul(w3, w), w)
         IN  2 * (w + w3 \div 3 + w5 \div 5)

(***************************************************************************)
(* entomology.c: the Culicoides rate functions (temperature in 1/SCALE C)  *)
(***************************************************************************)
culicoides_biting_rate(temperature) ==
    IF temperature > 3700 /\ temperature < 41900
    THEN Mul((2 * Mul(temperature, temperature - 3700)) \div 10000,
             exp(Mul(370, log(41900 - temperature))))
    ELSE 0

culicoides_mortality_rate(temperature) ==
    IF temperature > -2 * SCALE
    THEN Mul(9, exp(Mul(160, temperature)))
    ELSE 100 * SCALE

culicoides_incubation_rate(temperature) ==
    LET rate == Mul(18, temperature - 13400)
    IN  IF rate > 0 THEN rate ELSE 0


(***************************************************************************)
(* random.c: the Poisson functions.  gsl_ran_poisson returns 0 for a mean  *)
(* that is not positive (its product loop ends at once), and any natural   *)
(* number otherwise; the model cuts the support at MaxPoisson.             *)
(***************************************************************************)
rand_poisson(lambda) == IF lambda > 0 THEN 0 .. MaxPoisson ELSE {0}

\* gsl_ran_binomial(p, n): 0 when p <= 0 or n = 0, any value of 0 .. n otherwise
rand_binomial(n, p) == IF p > 0 /\ n > 0 THEN 0 .. n ELSE {0}

RECURSIVE poisson_pmf(_, _)
poisson_pmf(k, lambda) ==
    IF k = 0 THEN exp(-lambda) ELSE Mul(poisson_pmf(k - 1, lambda), lambda) \div k

RECURSIVE poisson_cdf(_, _)
poisson_cdf(k, lambda) ==
    IF k < 0 THEN 0 ELSE poisson_cdf(k - 1, lambda) + poisson_pmf(k, lambda)

poisson_sf(k, lambda) == SCALE - poisson_cdf(k, lambda)

(***************************************************************************)
(* The state                                                               *)
(***************************************************************************)
VARIABLES
    farms,                  \* state->farms[0 .. num_farms - 1]
    state,                  \* the scalar fields of SimulationState and the movement edge list
    latent_midge_density,   \* [row][col][stage]
    inf_midge_density,      \* [row][col]
    diffusion_soln_grid,    \* [row][col], the scratch grid of the diffusion
    diffusion_grid,         \* [row][col], read only
    temp_grid,              \* [row][col], read only; the same temperature on every day of the year
    params,                 \* SimulationParams, EpiParams, ControlParams, GridParams, MovementParams
    pc,                     \* the position of the run inside or between simulate_day calls
    hist                    \* history: infected animals moved in and out and disease deaths, per farm,
                            \* and the number of farms not detected when the day began

vars == <<farms, state, latent_midge_density, inf_midge_density, diffusion_soln_grid,
          diffusion_grid, temp_grid, params, pc, hist>>

grid_vars == <<latent_midge_density, inf_midge_density, diffusion_soln_grid>>
input_vars == <<diffusion_grid, temp_grid, params>>

Rows == 0 .. MAX_GRID_S - 1
Cols == 0 .. MAX_GRID_E - 1
FarmIds == DOMAIN farms
Species == {"sheep", "cattle"}

(***************************************************************************)
(* simulation_internal.h                                                   *)
(***************************************************************************)
RECURSIVE SumTo(_, _)
SumTo(a, n) == IF n = 0 THEN 0 ELSE SumTo(a, n - 1) + a[n - 1]

dist_sq(a, b) ==
    LET dx == a.x[1] - b.x[1]
        dy == a.x[2] - b.x[2]
    IN  dx * dx + dy * dy

num_inf_cattle(f, num_stages) == SumTo(f.i_cattle, num_stages)
num_inf_sheep(f, num_stages) == SumTo(f.i_sheep, num_stages)
num_cattle(f, num_stages) == f.s_cattle + num_inf_cattle(f, num_stages) + f.r_cattle
num_sheep(f, num_stages) == f.s_sheep + num_inf_sheep(f, num_stages) + f.r_sheep

eff_num_animals(f, pref, inf_stages_cattle, inf_stages_sheep) ==
    num_cattle(f, inf_stages_cattle) + pref * num_sheep(f, inf_stages_sheep)

eff_num_inf_animals(f, pref, inf_stages_cattle, inf_stages_sheep) ==
    SumTo(f.i_cattle, inf_stages_cattle) + pref * SumTo(f.i_sheep, inf_stages_sheep)

(***************************************************************************)
(* The state before day 0, as the loader leaves it.  The roster is a row   *)
(* of farms FarmSpacing apart; farm 0 holds the herd `herd0`, the others   *)
(* are free of infection.  Every control flag is clear, every farm is in   *)
(* the free area, the scratch grid is zero.                                *)
(***************************************************************************)
Stages == 0 .. NumInfStages - 1

CleanHerd == [s_sheep |-> 2, i_sheep |-> [k \in Stages |-> 0], r_sheep |-> 0,
              s_cattle |-> 2, i_cattle |-> [k \in Stages |-> 0], r_cattle |-> 0]

\* one sheep in the first infectious stage, one cow in the last
InfectedHerd == [s_sheep |-> 1, i_sheep |-> [k \in Stages |-> IF k = 0 THEN 1 ELSE 0],
                 r_sheep |-> 0,
                 s_cattle |-> 1,
                 i_cattle |-> [k \in Stages |-> IF k = NumInfStages - 1 THEN 1 ELSE 0],
                 r_cattle |-> 0]

InteriorCols == 1 .. MAX_GRID_E - 2

LoadFarm(k, spacing, herd) ==
    [id |-> k,
     x |-> <<k * spacing, 0>>,
     county_number |-> k % 2,
     temp_grid_x |-> 1 + (k % (MAX_GRID_E - 2)), temp_grid_y |-> 1,
     midge_grid_x |-> 1 + (k % (MAX_GRID_E - 2)), midge_grid_y |-> 1,
     v_intercept |-> 0, temp_eff |-> 0, temp_eff_sq |-> 0,
     overdispersion |-> 0,
     number_of_sheep |-> herd.s_sheep + SumTo(herd.i_sheep, NumInfStages) + herd.r_sheep,
     number_of_cattle |-> herd.s_cattle + SumTo(herd.i_cattle, NumInfStages) + herd.r_cattle,
     s_sheep |-> herd.s_sheep, i_sheep |-> herd.i_sheep, r_sheep |-> herd.r_sheep,
     s_cattle |-> herd.s_cattle, i_cattle |-> herd.i_cattle, r_cattle |-> herd.r_cattle,
     rel_local_weight |-> SCALE,
     detected |-> FALSE, movement_banned |-> FALSE, protection_zone |-> FALSE,
     surveillance_zone |-> FALSE, free_area |-> TRUE, ever_been_detected |-> FALSE,
     local_farm_ids |-> <<>>,
     temp_today |-> 0]

\* the edge list: a link from every farm to the next one and back
LoadLinks(num_farms) ==
    [n \in 0 .. 2 * (num_farms - 1) - 1 |->
        IF n % 2 = 0 THEN [from |-> n \div 2, to |-> n \div 2 + 1]
        ELSE [from |-> n \div 2 + 1, to |-> n \div 2]]

\* the state after loading num_farms farms on a line, the first with herd0
LoadFarms(num_farms, day0, num_days, ctrl, spacing, risk, herd0, seed, latent0, D, dt, T, width, epi) ==
    /\ farms = [k \in 0 .. num_farms - 1 |->
                   LoadFarm(k, spacing, IF k = 0 THEN herd0 ELSE CleanHerd)]
    /\ state = [simulation_day |-> day0, day_of_year |-> day0 % DAYS_PER_YEAR,
                num_farms |-> num_farms,
                num_movement_links |-> 2 * (num_farms - 1),
                movement_from |-> [n \in DOMAIN LoadLinks(num_farms) |->
                                      LoadLinks(num_farms)[n].from],
                movement_to |-> [n \in DOMAIN LoadLinks(num_farms) |->
                                    LoadLinks(num_farms)[n].to],
                movement_risk |-> [n \in DOMAIN LoadLinks(num_farms) |-> risk],
                num_farms_detected_today |-> 0, num_sheep_infected_today |-> 0,
                num_cattle_infected_today |-> 0, num_sheep_deaths |-> 0,
                interrupted_movements |-> 0, num_farms_checked |-> 0, num_tests |-> 0,
                num_pos_tests |-> 0, num_movement_transmissions |-> 0,
                num_risky_moves_blocked |-> 0,
                btv_observed |-> FALSE, first_detected_farm_id |-> 0,
                restriction_zones_implemented |-> FALSE,
                active_surveillance_performed |-> FALSE]
    /\ inf_midge_density = [i \in Rows |-> [j \in Cols |->
                               IF i = 1 /\ j = 1 THEN seed ELSE 0]]
    /\ latent_midge_density = [i \in Rows |-> [j \in Cols |-> [k \in 0 .. NumEipStages - 1 |->
                               IF i = 1 /\ j = 1 /\ k = 0 THEN latent0 ELSE 0]]]
    /\ diffusion_soln_grid = [i \in Rows |-> [j \in Cols |-> 0]]
    /\ diffusion_grid = [i \in Rows |-> [j \in Cols |-> D]]
    /\ temp_grid = [i \in Rows |-> [j \in Cols |-> T]]
    /\ params = [dt |-> dt, num_days |-> num_days,
                 num_inf_stages_sheep |-> NumInfStages, num_inf_stages_cattle |-> NumInfStages,
                 num_eip_stages |-> NumEipStages,
                 p_v |-> epi.p_v, p_h |-> epi.p_h,
                 rec_rate_sheep |-> 50, rec_rate_cattle |-> 50,
                 detection_prob_cattle |-> epi.detection_prob,
                 detection_prob_sheep |-> epi.detection_prob,
                 preference_for_sheep |-> 1, transmission_scalar |-> 1000,
                 ban_radius |-> 3000, pz_radius |-> 3000, sz_radius |-> 10000,
                 county_ban |-> ctrl.county_ban, no_control |-> ctrl.no_control,
                 no_farm_ban |-> ctrl.no_farm_ban,
                 restriction_zones |-> ctrl.restriction_zones, total_ban |-> ctrl.total_ban,
                 midge_grid_width |-> 2, temp_grid_width |-> width]
    /\ pc = [phase |-> "idle", k |-> 0, fld |-> 0, elapsed |-> 0, calls |-> 0]
    /\ hist = [moved_in |-> [k \in 0 .. num_farms - 1 |-> [sp \in Species |-> 0]],
               moved_out |-> [k \in 0 .. num_farms - 1 |-> [sp \in Species |-> 0]],
               deaths |-> [k \in 0 .. num_farms - 1 |-> 0],
               undetected_at_start |-> num_farms]

\* the state after loading the NumFarms farms of the standard runs
Load(day0, num_days, ctrl, spacing, risk, herd0, seed, latent0, D, dt, T, width, epi) ==
    LoadFarms(NumFarms, day0, num_days, ctrl, spacing, risk, herd0, seed, latent0, D, dt, T,
              width, epi)

(***************************************************************************)
(* farm_epi.c: the local movement ban and the detection trigger            *)
(***************************************************************************)
IdsInOrder(n) == [k \in 1 .. n |-> k - 1]

InSeq(e, sq) == \E n \in 1 .. Len(sq) : sq[n] = e

\* a variant that builds the list and applies the bans but leaves
\* ever_been_detected as it was
implement_local_movement_ban_unmarked(fs, centre_id, ctrl) ==
    LET centre == fs[centre_id]
        Near(k) == k # centre_id
                   /\ dist_sq(fs[k], centre) < ctrl.ban_radius * ctrl.ban_radius
        local == IF ~centre.ever_been_detected
                 THEN SelectSeq(IdsInOrder(Cardinality(DOMAIN fs)), Near)
                 ELSE centre.local_farm_ids
        f1 == [fs EXCEPT ![centre_id].local_farm_ids = local]
        Banned(k) == \/ ~ctrl.no_farm_ban /\ InSeq(k, local)
                     \/ ctrl.county_ban /\ fs[k].county_number = centre.county_number
                     \/ ctrl.total_ban
    IN  [k \in DOMAIN fs |->
            IF Banned(k) THEN [f1[k] EXCEPT !.movement_banned = TRUE, !.free_area = FALSE]
            ELSE f1[k]]

\* a variant that bans the local farms whatever no_farm_ban says
implement_local_movement_ban_always(fs, centre_id, ctrl) ==
    LET centre == fs[centre_id]
        Near(k) == k # centre_id
                   /\ dist_sq(fs[k], centre) < ctrl.ban_radius * ctrl.ban_radius
        local == IF ~centre.ever_been_detected
                 THEN SelectSeq(IdsInOrder(Cardinality(DOMAIN fs)), Near)
                 ELSE centre.local_farm_ids
        f1 == [fs EXCEPT ![centre_id].local_farm_ids = local,
                         ![centre_id].ever_been_detected = TRUE]
        Banned(k) == \/ InSeq(k, local)
                     \/ ctrl.county_ban /\ fs[k].county_number = centre.county_number
                     \/ ctrl.total_ban
    IN  [k \in DOMAIN fs |->
            IF Banned(k) THEN [f1[k] EXCEPT !.movement_banned = TRUE, !.free_area = FALSE]
            ELSE f1[k]]

implement_local_movement_ban(fs, centre_id, ctrl) ==
    LET centre == fs[centre_id]
        Near(k) == k # centre_id
                   /\ dist_sq(fs[k], centre) < ctrl.ban_radius * ctrl.ban_radius
        \* the list is built on the first detection of the centre and kept
        local == IF ~centre.ever_been_detected
                 THEN SelectSeq(IdsInOrder(Cardinality(DOMAIN fs)), Near)
                 ELSE centre.local_farm_ids
        f1 == [fs EXCEPT ![centre_id].local_farm_ids = local,
                         ![centre_id].ever_been_detected = TRUE]
        Banned(k) == \/ ~ctrl.no_farm_ban /\ InSeq(k, local)
                     \/ ctrl.county_ban /\ fs[k].county_number = centre.county_number
                     \/ ctrl.total_ban
    IN  [k \in DOMAIN fs |->
            IF Banned(k) THEN [f1[k] EXCEPT !.movement_banned = TRUE, !.free_area = FALSE]
            ELSE f1[k]]

\* a variant that counts the detection and leaves the farm undetected
detection_trigger_unflagged(fs, st, k, ctrl) ==
    LET st1 == [st EXCEPT !.num_farms_detected_today = @ + 1]
        f2 == IF ~ctrl.no_farm_ban THEN [fs EXCEPT ![k].movement_banned = TRUE] ELSE fs
    IN  IF ctrl.no_control THEN [farms |-> fs, state |-> st1]
        ELSE [farms |-> implement_local_movement_ban(f2, fs[k].id, ctrl),
              state |-> IF ~st1.btv_observed
                        THEN [st1 EXCEPT !.btv_observed = TRUE,
                                         !.first_detected_farm_id = fs[k].id]
                        ELSE st1]

\* a variant that does not ban the detected farm itself
detection_trigger_unbanned(fs, st, k, ctrl) ==
    LET f1 == [fs EXCEPT ![k].detected = TRUE]
        st1 == [st EXCEPT !.num_farms_detected_today = @ + 1]
    IN  IF ctrl.no_control THEN [farms |-> f1, state |-> st1]
        ELSE [farms |-> implement_local_movement_ban(f1, fs[k].id, ctrl),
              state |-> IF ~st1.btv_observed
                        THEN [st1 EXCEPT !.btv_observed = TRUE,
                                         !.first_detected_farm_id = fs[k].id]
                        ELSE st1]

\* a variant that records every detected farm as the first one
detection_trigger_overwrites(fs, st, k, ctrl) ==
    LET f1 == [fs EXCEPT ![k].detected = TRUE]
        st1 == [st EXCEPT !.num_farms_detected_today = @ + 1]
        f2 == IF ~ctrl.no_farm_ban THEN [f1 EXCEPT ![k].movement_banned = TRUE] ELSE f1
    IN  IF ctrl.no_control THEN [farms |-> f1, state |-> st1]
        ELSE [farms |-> implement_local_movement_ban(f2, fs[k].id, ctrl),
              state |-> [st1 EXCEPT !.btv_observed = TRUE,
                                    !.first_detected_farm_id = fs[k].id]]

\* a variant that does not look at no_control
detection_trigger_uncontrolled(fs, st, k, ctrl) ==
    LET f1 == [fs EXCEPT ![k].detected = TRUE]
        st1 == [st EXCEPT !.num_farms_detected_today = @ + 1]
        f2 == IF ~ctrl.no_farm_ban THEN [f1 EXCEPT ![k].movement_banned = TRUE] ELSE f1
    IN  [farms |-> implement_local_movement_ban(f2, fs[k].id, ctrl),
         state |-> IF ~st1.btv_observed
                   THEN [st1 EXCEPT !.btv_observed = TRUE,
                                    !.first_detected_farm_id = fs[k].id]
                   ELSE st1]

\* what every `if (X > 0 && !farm->detected)` and the passive detection do
\* once the farm is found: the farms and the state after it
detection_trigger(fs, st, k, ctrl) ==
    LET f1 == [fs EXCEPT ![k].detected = TRUE]
        st1 == [st EXCEPT !.num_farms_detected_today = @ + 1]
        f2 == IF ~ctrl.no_farm_ban THEN [f1 EXCEPT ![k].movement_banned = TRUE] ELSE f1
    IN  IF ctrl.no_control THEN [farms |-> f1, state |-> st1]
        ELSE [farms |-> implement_local_movement_ban(f2, fs[k].id, ctrl),
              state |-> IF ~st1.btv_observed
                        THEN [st1 EXCEPT !.btv_observed = TRUE,
                                         !.first_detected_farm_id = fs[k].id]
                        ELSE st1]

(***************************************************************************)
(* control.c                                                               *)
(***************************************************************************)
\* a variant whose zones leave out the farms exactly at the radius
setup_restriction_zone_open(fs, st, centre_id, ctrl) ==
    LET centre == fs[centre_id]
        pz2 == ctrl.pz_radius * ctrl.pz_radius
        sz2 == ctrl.sz_radius * ctrl.sz_radius
    IN  [farms |-> [k \in DOMAIN fs |->
                       LET d2 == dist_sq(fs[k], centre)
                       IN  IF d2 < pz2
                           THEN [fs[k] EXCEPT !.protection_zone = TRUE, !.free_area = FALSE]
                           ELSE IF d2 < sz2
                           THEN [fs[k] EXCEPT !.surveillance_zone = TRUE, !.free_area = FALSE]
                           ELSE fs[k]],
         state |-> [st EXCEPT !.restriction_zones_implemented = TRUE]]

\* a variant whose surveillance zone includes the protection zone
setup_restriction_zone_nested(fs, st, centre_id, ctrl) ==
    LET centre == fs[centre_id]
        pz2 == ctrl.pz_radius * ctrl.pz_radius
        sz2 == ctrl.sz_radius * ctrl.sz_radius
    IN  [farms |-> [k \in DOMAIN fs |->
                       LET d2 == dist_sq(fs[k], centre)
                       IN  IF d2 <= pz2
                           THEN [fs[k] EXCEPT !.protection_zone = TRUE,
                                              !.surveillance_zone = TRUE,
                                              !.free_area = FALSE]
                           ELSE IF d2 <= sz2
                           THEN [fs[k] EXCEPT !.surveillance_zone = TRUE, !.free_area = FALSE]
                           ELSE fs[k]],
         state |-> [st EXCEPT !.restriction_zones_implemented = TRUE]]

setup_restriction_zone(fs, st, centre_id, ctrl) ==
    LET centre == fs[centre_id]
        pz2 == ctrl.pz_radius * ctrl.pz_radius
        sz2 == ctrl.sz_radius * ctrl.sz_radius
    IN  [farms |-> [k \in DOMAIN fs |->
                       LET d2 == dist_sq(fs[k], centre)
                       IN  IF d2 <= pz2
                           THEN [fs[k] EXCEPT !.protection_zone = TRUE, !.free_area = FALSE]
                           ELSE IF d2 <= sz2
                           THEN [fs[k] EXCEPT !.surveillance_zone = TRUE, !.free_area = FALSE]
                           ELSE fs[k]],
         state |-> [st EXCEPT !.restriction_zones_implemented = TRUE]]

\* the loop of perform_active_surveillance over the farms 0 .. n - 1
RECURSIVE SurveillanceLoop(_, _, _, _)
SurveillanceLoop(fs, st, epi, n) ==
    IF n = 0 THEN [farms |-> fs, state |-> st]
    ELSE LET before == SurveillanceLoop(fs, st, epi, n - 1)
             k == n - 1
             f == before.farms[k]
             centre == before.farms[st.first_detected_farm_id]
             inf == num_inf_cattle(f, epi.num_inf_stages_cattle)
                    + num_inf_sheep(f, epi.num_inf_stages_sheep)
         IN  IF dist_sq(f, centre) <= SURV_RADIUS * SURV_RADIUS
             THEN [farms |-> IF inf > 0
                             THEN [before.farms EXCEPT ![k].detected = TRUE]
                             ELSE before.farms,
                   state |-> [before.state EXCEPT
                       !.num_farms_checked = @ + 1,
                       !.num_tests = @ + num_cattle(f, epi.num_inf_stages_cattle)
                                       + num_sheep(f, epi.num_inf_stages_sheep),
                       !.num_pos_tests = @ + (IF inf > 0
                                              THEN inf + f.r_sheep + f.r_cattle ELSE 0)]]
             ELSE before

perform_active_surveillance(fs, st, epi) ==
    LET done == SurveillanceLoop(fs, st, epi, st.num_farms)
    IN  [farms |-> done.farms,
         state |-> [done.state EXCEPT !.active_surveillance_performed = TRUE]]

\* a variant that acts only on a day whose own detection counter is positive;
\* the counter has been reset when the control step runs
apply_control_measures_same_day(fs, st, p) ==
    IF p.no_control THEN [farms |-> fs, state |-> st]
    ELSE IF st.btv_observed /\ ~st.restriction_zones_implemented
            /\ st.num_farms_detected_today > 0
    THEN LET zoned == IF p.restriction_zones
                      THEN setup_restriction_zone(fs, st, st.first_detected_farm_id, p)
                      ELSE [farms |-> fs, state |-> st]
         IN  IF ~zoned.state.active_surveillance_performed
             THEN perform_active_surveillance(zoned.farms, zoned.state, p)
             ELSE zoned
    ELSE [farms |-> fs, state |-> st]

\* a variant that performs active surveillance whenever the block is entered
apply_control_measures_repeating(fs, st, p) ==
    IF p.no_control THEN [farms |-> fs, state |-> st]
    ELSE IF st.btv_observed /\ ~st.restriction_zones_implemented
    THEN LET zoned == IF p.restriction_zones
                      THEN setup_restriction_zone(fs, st, st.first_detected_farm_id, p)
                      ELSE [farms |-> fs, state |-> st]
         IN  perform_active_surveillance(zoned.farms, zoned.state, p)
    ELSE [farms |-> fs, state |-> st]

apply_control_measures(fs, st, p) ==
    IF p.no_control THEN [farms |-> fs, state |-> st]
    ELSE IF st.btv_observed /\ ~st.restriction_zones_implemented
    THEN LET zoned == IF p.restriction_zones
                      THEN setup_restriction_zone(fs, st, st.first_detected_farm_id, p)
                      ELSE [farms |-> fs, state |-> st]
         IN  IF ~zoned.state.active_surveillance_performed
             THEN perform_active_surveillance(zoned.farms, zoned.state, p)
             ELSE zoned
    ELSE [farms |-> fs, state |-> st]

(***************************************************************************)
(* midge_dynamics.c                                                        *)
(***************************************************************************)
\* the temperatures a read of the temperature grid can give (1/SCALE C)
Temperatures == {-5000, 0, 20000}

\* temp_grid[i][j][day]: the third dimension has DAYS_PER_YEAR entries; a read
\* past it is out of bounds and gives any value
temp_grid_read(i, j, day) ==
    IF day < DAYS_PER_YEAR THEN {temp_grid[i][j]} ELSE Temperatures

\* the body of the double loop for one cell: the cell's latent stages and
\* infectious density after mortality and EIP progression at `temp`
mortality_and_incubation_cell(lat, inf, temp, num_eip) ==
    LET mort == exp(-culicoides_mortality_rate(temp))
        incub == num_eip * culicoides_incubation_rate(temp)
        inf1 == Mul(inf, mort)
        lat1 == [k \in 0 .. num_eip - 1 |-> Mul(lat[k], mort)]
        sum == SumTo(lat1, num_eip)
        soln(n) == SumTo([k \in 0 .. n |-> Mul(lat1[k], poisson_pmf(n - k, incub))], n + 1)
        emerged == SumTo([k \in 0 .. num_eip - 1 |->
                             Mul(lat1[k], poisson_sf(num_eip - k - 1, incub))], num_eip)
    IN  IF incub > 0 /\ sum > 0
        THEN [lat |-> [n \in 0 .. num_eip - 1 |-> soln(n)], inf |-> inf1 + emerged]
        ELSE [lat |-> lat1, inf |-> inf1]

\* R = (int)(midge_grid_width / temp_grid_width)
Stride(p) == p.midge_grid_width \div p.temp_grid_width

\* the cells the double loop `for (i = 0; ...; i += R) for (j = 0; ...; j += R)` visits
VisitedCells(R) == {c \in Rows \X Cols : c[1] % R = 0 /\ c[2] % R = 0}

\* the visited cells that hold midges: the temperature read matters for these only
\* (a cell of zeros stays a cell of zeros at every temperature)
LiveCells(R, lat, inf, num_eip) ==
    {c \in VisitedCells(R) :
        inf[c[1]][c[2]] # 0 \/ \E k \in 0 .. num_eip - 1 : lat[c[1]][c[2]][k] # 0}

\* the grids after the step, given the temperature read for each live cell
midge_mortality_and_incubation(lat, inf, temps, num_eip) ==
    LET cell(i, j) == mortality_and_incubation_cell(lat[i][j], inf[i][j],
                                                     temps[<<i, j>>], num_eip)
    IN  [lat |-> [i \in Rows |-> [j \in Cols |->
                     IF <<i, j>> \in DOMAIN temps THEN cell(i, j).lat ELSE lat[i][j]]],
         inf |-> [i \in Rows |-> [j \in Cols |->
                     IF <<i, j>> \in DOMAIN temps THEN cell(i, j).inf ELSE inf[i][j]]]]

Interior(i, j) == i >= 1 /\ i < MAX_GRID_S - 1 /\ j >= 1 /\ j < MAX_GRID_E - 1

\* 0.5 * flux of an interior cell, flux = D * dt * density / h2; a density of
\* one unit (1/SCALE) or more is above the 1e-5 threshold, no other is
HalfFlux(g, D, dt, h2, i, j) ==
    IF Interior(i, j) /\ g[i][j] > 0 THEN (D[i][j] * dt * g[i][j]) \div (2 * SCALE * h2)
    ELSE 0

\* the scratch grid after the deposit loop over the interior cells of field g
Deposit(g, scratch, D, dt, h2) ==
    LET hf(i, j) == IF i \in Rows /\ j \in Cols THEN HalfFlux(g, D, dt, h2, i, j) ELSE 0
    IN  [i \in Rows |-> [j \in Cols |->
            scratch[i][j] - 4 * hf(i, j)
            + hf(i - 1, j) + hf(i + 1, j) + hf(i, j - 1) + hf(i, j + 1)]]

\* the fold loop: every interior cell takes its scratch value, which is zeroed
Fold(g, scratch) ==
    [field |-> [i \in Rows |-> [j \in Cols |->
                   IF Interior(i, j) THEN g[i][j] + scratch[i][j] ELSE g[i][j]]],
     scratch |-> [i \in Rows |-> [j \in Cols |->
                   IF Interior(i, j) THEN 0 ELSE scratch[i][j]]]]

\* one field's pass of midge_diffusion_step: deposit, then fold
diffusion_pass(g, scratch, D, dt, h2) == Fold(g, Deposit(g, scratch, D, dt, h2))

(***************************************************************************)
(* The draws of gsl_rng_uniform: values of [0, 1), 0.0 included            *)
(***************************************************************************)
UniformDraws == {0, 250, 750}

\* 1.4563 * gsl_ran_gaussian: any real; two values are kept
OverdispersionDraws == {0, 2000}

SetMin(S) == CHOOSE m \in S : \A n \in S : m <= n

(***************************************************************************)
(* movement.c                                                              *)
(***************************************************************************)
\* the stage the cumulative search `cum += i[k]; if (cum >= sel)` stops at,
\* or -1 when the loop ends without a break (sel is fixed-point, i whole)
SelectStage(i, sel, num_stages) ==
    LET hits == {k \in 0 .. num_stages - 1 : SumTo(i, k + 1) * SCALE >= sel}
    IN  IF hits = {} THEN -1 ELSE SetMin(hits)

\* a variant that transfers the animal without counting it in num_inf_moved
MoveOneAnimal_uncounted(m, total, num_stages) ==
    {LET k == SelectStage(m.src_i, u2 * m.inf, num_stages)
     IN  IF u1 * total < m.inf * SCALE /\ k >= 0
         THEN [src_i |-> [m.src_i EXCEPT ![k] = @ - 1],
               dst_i |-> [m.dst_i EXCEPT ![k] = @ + 1],
               inf |-> m.inf - 1,
               moved |-> m.moved]
         ELSE m
     : u1 \in UniformDraws, u2 \in UniformDraws}

\* a variant in which the animal leaves the source and never arrives
MoveOneAnimal_lost(m, total, num_stages) ==
    {LET k == SelectStage(m.src_i, u2 * m.inf, num_stages)
     IN  IF u1 * total < m.inf * SCALE /\ k >= 0
         THEN [src_i |-> [m.src_i EXCEPT ![k] = @ - 1],
               dst_i |-> m.dst_i,
               inf |-> m.inf - 1,
               moved |-> m.moved + 1]
         ELSE m
     : u1 \in UniformDraws, u2 \in UniformDraws}

\* one pass of the shipment loop: the loop states after it, for every pair of
\* uniform draws.  m holds the stages of the species at source and destination,
\* the running infected count and the number moved so far.
MoveOneAnimal(m, total, num_stages) ==
    {LET k == SelectStage(m.src_i, u2 * m.inf, num_stages)
     IN  IF u1 * total < m.inf * SCALE /\ k >= 0
         THEN [src_i |-> [m.src_i EXCEPT ![k] = @ - 1],
               dst_i |-> [m.dst_i EXCEPT ![k] = @ + 1],
               inf |-> m.inf - 1,
               moved |-> m.moved + 1]
         ELSE m
     : u1 \in UniformDraws, u2 \in UniformDraws}

RECURSIVE ShipmentLoop(_, _, _, _)
ShipmentLoop(M, size, total, num_stages) ==
    IF size <= 0 THEN M
    ELSE ShipmentLoop(UNION {MoveOneAnimal(m, total, num_stages) : m \in M},
                      size - 1, total, num_stages)

\* the shipments of one species: the loop states after the size draw and the loop
Shipments(src_i, dst_i, total, num_stages) ==
    UNION {ShipmentLoop({[src_i |-> src_i, dst_i |-> dst_i,
                          inf |-> SumTo(src_i, num_stages), moved |-> 0]},
                        int_min(1 + nb, total), total, num_stages)
           : nb \in 0 .. MaxNegBinomial}

\* a variant that lets animals leave a surveillance zone for a free area
transmission_via_movement_open(fs, st, h, from_id, to_id, risk, p) ==
    LET src == fs[from_id]
        dst == fs[to_id]
        same == [farms |-> fs, state |-> st, hist |-> h]
        interrupt == \/ src.movement_banned \/ dst.movement_banned
                     \/ src.protection_zone /\ ~dst.protection_zone
        infected == num_inf_cattle(src, p.num_inf_stages_cattle)
                    + num_inf_sheep(src, p.num_inf_stages_sheep)
        total_sheep == num_sheep(src, p.num_inf_stages_sheep)
        total_cattle == num_cattle(src, p.num_inf_stages_cattle)
        Counted(moved, sp) ==
            [state |-> IF moved > 0
                       THEN [st EXCEPT !.num_movement_transmissions = @ + 1] ELSE st,
             hist |-> [h EXCEPT !.moved_out[from_id][sp] = @ + moved,
                                !.moved_in[to_id][sp] = @ + moved]]
        CattleMoves ==
            {[farms |-> [fs EXCEPT ![from_id].i_cattle = m.src_i, ![to_id].i_cattle = m.dst_i],
              state |-> Counted(m.moved, "cattle").state,
              hist |-> Counted(m.moved, "cattle").hist]
             : m \in Shipments(src.i_cattle, dst.i_cattle, total_cattle,
                               p.num_inf_stages_cattle)}
        SheepMoves ==
            {[farms |-> [fs EXCEPT ![from_id].i_sheep = m.src_i, ![to_id].i_sheep = m.dst_i],
              state |-> Counted(m.moved, "sheep").state,
              hist |-> Counted(m.moved, "sheep").hist]
             : m \in Shipments(src.i_sheep, dst.i_sheep, total_sheep,
                               p.num_inf_stages_sheep)}
        Occurs ==
            IF interrupt
            THEN {[same EXCEPT !.state.interrupted_movements = @ + 1,
                               !.state.num_risky_moves_blocked =
                                   IF infected > 0 THEN @ + 1 ELSE @]}
            ELSE IF total_sheep + total_cattle < 1 THEN {same}
            ELSE UNION {IF u * (total_sheep + total_cattle) > total_sheep * SCALE
                        THEN CattleMoves ELSE SheepMoves : u \in UniformDraws}
    IN  UNION {IF u > risk THEN {same} ELSE Occurs : u \in UniformDraws}

\* every outcome [farms, state, hist] of processing one movement link
transmission_via_movement(fs, st, h, from_id, to_id, risk, p) ==
    LET src == fs[from_id]
        dst == fs[to_id]
        same == [farms |-> fs, state |-> st, hist |-> h]
        interrupt == \/ src.movement_banned \/ dst.movement_banned
                     \/ src.protection_zone /\ ~dst.protection_zone
                     \/ src.surveillance_zone /\ dst.free_area
        infected == num_inf_cattle(src, p.num_inf_stages_cattle)
                    + num_inf_sheep(src, p.num_inf_stages_sheep)
        total_sheep == num_sheep(src, p.num_inf_stages_sheep)
        total_cattle == num_cattle(src, p.num_inf_stages_cattle)
        Counted(moved, sp) ==
            [state |-> IF moved > 0
                       THEN [st EXCEPT !.num_movement_transmissions = @ + 1] ELSE st,
             hist |-> [h EXCEPT !.moved_out[from_id][sp] = @ + moved,
                                !.moved_in[to_id][sp] = @ + moved]]
        CattleMoves ==
            {[farms |-> [fs EXCEPT ![from_id].i_cattle = m.src_i, ![to_id].i_cattle = m.dst_i],
              state |-> Counted(m.moved, "cattle").state,
              hist |-> Counted(m.moved, "cattle").hist]
             : m \in Shipments(src.i_cattle, dst.i_cattle, total_cattle,
                               p.num_inf_stages_cattle)}
        SheepMoves ==
            {[farms |-> [fs EXCEPT ![from_id].i_sheep = m.src_i, ![to_id].i_sheep = m.dst_i],
              state |-> Counted(m.moved, "sheep").state,
              hist |-> Counted(m.moved, "sheep").hist]
             : m \in Shipments(src.i_sheep, dst.i_sheep, total_sheep,
                               p.num_inf_stages_sheep)}
        Occurs ==
            IF interrupt
            THEN {[same EXCEPT !.state.interrupted_movements = @ + 1,
                               !.state.num_risky_moves_blocked =
                                   IF infected > 0 THEN @ + 1 ELSE @]}
            ELSE IF total_sheep + total_cattle < 1 THEN {same}
            ELSE UNION {IF u * (total_sheep + total_cattle) > total_sheep * SCALE
                        THEN CattleMoves ELSE SheepMoves : u \in UniformDraws}
    IN  UNION {IF u > risk THEN {same} ELSE Occurs : u \in UniformDraws}

(***************************************************************************)
(* farm_epi.c                                                              *)
(***************************************************************************)
\* every farm record farm_get_weather can leave
farm_get_weather(f, day) ==
    {[f EXCEPT !.temp_today = t, !.overdispersion = o]
     : t \in temp_grid_read(f.temp_grid_y, f.temp_grid_x, day), o \in OverdispersionDraws}

\* a variant in which the animals leaving the last stage are not added to r
ErlangStage_unrecovered(c, n, stages, rec_rate, mortality) ==
    UNION {LET i1 == c.i[n] - X
               moved == IF n = stages - 1
                        THEN [c EXCEPT !.i[n] = i1]
                        ELSE [c EXCEPT !.i[n] = i1, !.i[n + 1] = @ + X]
           IN  IF mortality
               THEN {[moved EXCEPT !.i[n] = @ - Y, !.deaths = @ + Y,
                                   !.died = @ \/ Y > 0]
                     : Y \in {int_min(d, i1) : d \in rand_poisson(SHEEP_MORT_RATE * i1)}}
               ELSE {moved}
           : X \in {int_min(d, c.i[n]) : d \in rand_poisson(stages * rec_rate * c.i[n])}}

\* One stage of one sub-day step.  c holds the stages i, the recovered count r,
\* the deaths drawn so far and whether a mortality draw was positive.  The
\* first draw moves animals of stage n on (to r from the last stage), the
\* second, for sheep only, removes animals of stage n.  The Poisson means are
\* passed in units that keep them whole: dt_farm * stages * rec_rate * i[n]
\* times 10, and dt_farm * sheep_mort_rate * i[n] times 100000.
ErlangStage(c, n, stages, rec_rate, mortality) ==
    UNION {LET i1 == c.i[n] - X
               moved == IF n = stages - 1
                        THEN [c EXCEPT !.i[n] = i1, !.r = @ + X]
                        ELSE [c EXCEPT !.i[n] = i1, !.i[n + 1] = @ + X]
           IN  IF mortality
               THEN {[moved EXCEPT !.i[n] = @ - Y, !.deaths = @ + Y,
                                   !.died = @ \/ Y > 0]
                     : Y \in {int_min(d, i1) : d \in rand_poisson(SHEEP_MORT_RATE * i1)}}
               ELSE {moved}
           : X \in {int_min(d, c.i[n]) : d \in rand_poisson(stages * rec_rate * c.i[n])}}

\* the stages n, n - 1, ..., 0 of one sub-day step, in that order
RECURSIVE ErlangStagesFrom(_, _, _, _, _)
ErlangStagesFrom(C, n, stages, rec_rate, mortality) ==
    IF n < 0 THEN C
    ELSE ErlangStagesFrom(UNION {ErlangStage(c, n, stages, rec_rate, mortality) : c \in C},
                          n - 1, stages, rec_rate, mortality)

\* `for (double t = 0.0; t < 1.0; t += dt_farm)`: t more sub-day steps
RECURSIVE SubdayLoop(_, _, _, _, _)
SubdayLoop(C, t, stages, rec_rate, mortality) ==
    IF t = 0 THEN C
    ELSE SubdayLoop(ErlangStagesFrom(C, stages - 1, stages, rec_rate, mortality),
                    t - 1, stages, rec_rate, mortality)

\* 1 - not_detect_c * not_detect_s of the passive detection
detection_probability(inf_c, inf_s, p) ==
    LET not_detect_c == exp(inf_c * log(SCALE - p.detection_prob_cattle))
        not_detect_s == exp(inf_s * log(SCALE - p.detection_prob_sheep))
    IN  SCALE - Mul(not_detect_c, not_detect_s)

\* every outcome [farms, state, hist] of the call for farm k
farm_deaths_and_recoveries(fs, st, h, k, p) ==
    LET f == fs[k]
        sheep0 == [i |-> f.i_sheep, r |-> f.r_sheep, deaths |-> 0, died |-> FALSE]
        cattle0 == [i |-> f.i_cattle, r |-> f.r_cattle, deaths |-> 0, died |-> FALSE]
        SheepOutcomes ==
            IF num_inf_sheep(f, p.num_inf_stages_sheep) > 0
            THEN SubdayLoop({sheep0}, FARM_SUBSTEPS, p.num_inf_stages_sheep,
                            p.rec_rate_sheep, TRUE)
            ELSE {sheep0}
        CattleOutcomes ==
            IF num_inf_cattle(f, p.num_inf_stages_cattle) > 0
            THEN SubdayLoop({cattle0}, FARM_SUBSTEPS, p.num_inf_stages_cattle,
                            p.rec_rate_cattle, FALSE)
            ELSE {cattle0}
        After(so, co) ==
            LET f1 == [fs EXCEPT ![k].i_sheep = so.i, ![k].r_sheep = so.r,
                                 ![k].i_cattle = co.i, ![k].r_cattle = co.r]
                st1 == [st EXCEPT !.num_sheep_deaths = @ + so.deaths]
                h1 == [h EXCEPT !.deaths[k] = @ + so.deaths]
                \* a positive mortality draw on a farm not yet detected
                found == IF so.died /\ ~f.detected
                         THEN detection_trigger(f1, st1, k, p)
                         ELSE [farms |-> f1, state |-> st1]
                inf_c == num_inf_cattle(found.farms[k], p.num_inf_stages_cattle)
                inf_s == num_inf_sheep(found.farms[k], p.num_inf_stages_sheep)
            IN  IF ~found.farms[k].detected /\ inf_c + inf_s > 0
                THEN {IF u <= detection_probability(inf_c, inf_s, p)
                      THEN [farms |-> detection_trigger(found.farms, found.state, k, p).farms,
                            state |-> detection_trigger(found.farms, found.state, k, p).state,
                            hist |-> h1]
                      ELSE [farms |-> found.farms, state |-> found.state, hist |-> h1]
                      : u \in UniformDraws}
                ELSE {[farms |-> found.farms, state |-> found.state, hist |-> h1]}
    IN  UNION {After(so, co) : so \in SheepOutcomes, co \in CattleOutcomes}

\* the new infections of one species: the Poisson approximation or the binomial
NewInfections(s, prob) ==
    IF s > 100 /\ prob < 10 /\ s * prob < 20 * SCALE
    THEN {int_min(d, s) : d \in rand_poisson(s * prob)}
    ELSE rand_binomial(s, prob)

\* every outcome [farms, state] of the call for farm k
farm_transmission_midges_to_hosts(fs, st, k, p, inf) ==
    LET f == fs[k]
        biting_rate == culicoides_biting_rate(f.temp_today)
        biting_prob == SCALE - exp(-biting_rate)
        inf_density == inf[f.midge_grid_y][f.midge_grid_x]
        force == Mul(Mul(f.rel_local_weight, inf_density), biting_prob)
        eff_animals == eff_num_animals(f, p.preference_for_sheep,
                                       p.num_inf_stages_cattle, p.num_inf_stages_sheep)
        prob_bite_sheep == (p.preference_for_sheep * SCALE) \div eff_animals
        prob_bite_cattle == SCALE \div eff_animals
        prob_inf_sheep == SCALE - exp(-Mul(Mul(force, prob_bite_sheep), p.p_h))
        prob_inf_cattle == SCALE - exp(-Mul(Mul(force, prob_bite_cattle), p.p_h))
    IN  IF eff_animals < 1 THEN {[farms |-> fs, state |-> st]}
        ELSE {[farms |-> [fs EXCEPT ![k].s_sheep = @ - A, ![k].i_sheep[0] = @ + A,
                                    ![k].s_cattle = @ - B, ![k].i_cattle[0] = @ + B],
               state |-> [st EXCEPT !.num_sheep_infected_today = @ + A,
                                    !.num_cattle_infected_today = @ + B]]
              : A \in NewInfections(f.s_sheep, prob_inf_sheep),
                B \in NewInfections(f.s_cattle, prob_inf_cattle)}

\* a variant whose season includes days 60 and 330
farm_transmission_hosts_to_midges_closed(f, st, p, lat) ==
    LET day == st.simulation_day
        climate == f.v_intercept + Mul(f.temp_eff, f.temp_today)
                   + Mul(Mul(f.temp_eff_sq, f.temp_today), f.temp_today)
                   + f.overdispersion
        bites == p.transmission_scalar * exp(climate)
        bites_per_animal == IF bites > MAX_BITES * SCALE THEN MAX_BITES * SCALE ELSE bites
        eff_inf == eff_num_inf_animals(f, p.preference_for_sheep,
                                       p.num_inf_stages_cattle, p.num_inf_stages_sheep)
        new_latent == Mul(p.p_v * eff_inf, bites_per_animal)
    IN  IF day % DAYS_PER_YEAR < 60 \/ day % DAYS_PER_YEAR > 330 THEN lat
        ELSE [lat EXCEPT ![f.midge_grid_y][f.midge_grid_x][0] = @ + new_latent]

\* a variant whose deposit leaves out the factor p_v
farm_transmission_hosts_to_midges_unscaled(f, st, p, lat) ==
    LET day == st.simulation_day
        climate == f.v_intercept + Mul(f.temp_eff, f.temp_today)
                   + Mul(Mul(f.temp_eff_sq, f.temp_today), f.temp_today)
                   + f.overdispersion
        bites == p.transmission_scalar * exp(climate)
        bites_per_animal == IF bites > MAX_BITES * SCALE THEN MAX_BITES * SCALE ELSE bites
        eff_inf == eff_num_inf_animals(f, p.preference_for_sheep,
                                       p.num_inf_stages_cattle, p.num_inf_stages_sheep)
        new_latent == Mul(eff_inf, bites_per_animal)
    IN  IF day % DAYS_PER_YEAR <= 60 \/ day % DAYS_PER_YEAR >= 330 THEN lat
        ELSE [lat EXCEPT ![f.midge_grid_y][f.midge_grid_x][0] = @ + new_latent]

\* The latent grid after the call for farm f.  The harmonic coefficients of the
\* roster are zero, so the sine and cosine terms of the climate sum vanish.
farm_transmission_hosts_to_midges(f, st, p, lat) ==
    LET day == st.simulation_day
        climate == f.v_intercept + Mul(f.temp_eff, f.temp_today)
                   + Mul(Mul(f.temp_eff_sq, f.temp_today), f.temp_today)
                   + f.overdispersion
        bites == p.transmission_scalar * exp(climate)
        bites_per_animal == IF bites > MAX_BITES * SCALE THEN MAX_BITES * SCALE ELSE bites
        eff_inf == eff_num_inf_animals(f, p.preference_for_sheep,
                                       p.num_inf_stages_cattle, p.num_inf_stages_sheep)
        new_latent == Mul(p.p_v * eff_inf, bites_per_animal)
    IN  IF day % DAYS_PER_YEAR <= 60 \/ day % DAYS_PER_YEAR >= 330 THEN lat
        ELSE [lat EXCEPT ![f.midge_grid_y][f.midge_grid_x][0] = @ + new_latent]

(***************************************************************************)
(* simulation.c: simulate_day, one action per step it runs                 *)
(***************************************************************************)
\* a variant that also resets the count of movement transmissions
reset_daily_counters_all(st) ==
    [st EXCEPT !.num_farms_detected_today = 0, !.num_sheep_infected_today = 0,
               !.num_cattle_infected_today = 0, !.num_sheep_deaths = 0,
               !.num_movement_transmissions = 0]

reset_daily_counters(st) ==
    [st EXCEPT !.num_farms_detected_today = 0, !.num_sheep_infected_today = 0,
               !.num_cattle_infected_today = 0, !.num_sheep_deaths = 0]

\* a variant that takes day_of_year from the day before the increment
advance_time_stale(st) ==
    [st EXCEPT !.simulation_day = @ + 1,
               !.day_of_year = st.simulation_day % DAYS_PER_YEAR]

advance_time(st) ==
    [st EXCEPT !.simulation_day = @ + 1,
               !.day_of_year = (st.simulation_day + 1) % DAYS_PER_YEAR]

\* the position at which the per-farm loop starts (or is skipped)
FarmLoopStart == IF state.num_farms > 0
                 THEN [pc EXCEPT !.phase = "weather", !.k = 0]
                 ELSE [pc EXCEPT !.phase = "advance", !.k = 0]

\* the position at which the loop of movement_transmission starts (or is skipped)
MovementLoopStart == IF state.num_movement_links > 0
                     THEN [pc EXCEPT !.phase = "movement", !.k = 0, !.fld = 0, !.elapsed = 0]
                     ELSE [FarmLoopStart EXCEPT !.fld = 0, !.elapsed = 0]

\* entry of simulate_day, which the driver calls once for each of the num_days
\* days of the run: the daily counters are reset
SimulateDayBegin ==
    /\ pc.phase = "idle"
    /\ pc.calls < params.num_days
    /\ state' = reset_daily_counters(state)
    /\ pc' = [pc EXCEPT !.phase = "control"]
    /\ hist' = [hist EXCEPT !.undetected_at_start =
                                Cardinality({k \in FarmIds : ~farms[k].detected})]
    /\ UNCHANGED <<farms, grid_vars, input_vars>>

\* 1. apply_control_measures
ControlMeasures ==
    /\ pc.phase = "control"
    /\ LET done == apply_control_measures(farms, state, params)
       IN  farms' = done.farms /\ state' = done.state
    /\ pc' = [pc EXCEPT !.phase = "mortality"]
    /\ UNCHANGED <<grid_vars, input_vars, hist>>

\* 2. midge_mortality_and_incubation; the double loop ends only for a stride R >= 1
MidgeMortalityAndIncubation ==
    /\ pc.phase = "mortality"
    /\ Stride(params) >= 1
    /\ LET live == LiveCells(Stride(params), latent_midge_density, inf_midge_density,
                             params.num_eip_stages)
       IN  \E temps \in [live -> Temperatures] :
              /\ \A c \in live : temps[c] \in temp_grid_read(c[1], c[2], state.simulation_day)
              /\ LET done == midge_mortality_and_incubation(latent_midge_density,
                                 inf_midge_density, temps, params.num_eip_stages)
                 IN  latent_midge_density' = done.lat /\ inf_midge_density' = done.inf
    /\ pc' = [pc EXCEPT !.phase = "diffusion", !.fld = 0, !.elapsed = 0]
    /\ UNCHANGED <<farms, state, diffusion_soln_grid, input_vars, hist>>

\* 3. midge_diffusion_for_day: one pass of midge_diffusion_step per action, the
\* latent stages 0 .. num_eip - 1 (pc.fld), then the infectious field, after which
\* the sub-step ends and `elapsed += dt` decides whether another one follows
MidgeDiffusionPass ==
    /\ pc.phase = "diffusion"
    /\ LET h2 == params.midge_grid_width * params.midge_grid_width
           num_eip == params.num_eip_stages
       IN  IF pc.fld < num_eip
           THEN LET g == [i \in Rows |-> [j \in Cols |-> latent_midge_density[i][j][pc.fld]]]
                    done == diffusion_pass(g, diffusion_soln_grid, diffusion_grid,
                                           params.dt, h2)
                IN  /\ latent_midge_density' =
                         [i \in Rows |-> [j \in Cols |->
                             [latent_midge_density[i][j] EXCEPT ![pc.fld] = done.field[i][j]]]]
                    /\ diffusion_soln_grid' = done.scratch
                    /\ pc' = [pc EXCEPT !.fld = @ + 1]
                    /\ UNCHANGED inf_midge_density
           ELSE LET done == diffusion_pass(inf_midge_density, diffusion_soln_grid,
                                           diffusion_grid, params.dt, h2)
                IN  /\ inf_midge_density' = done.field
                    /\ diffusion_soln_grid' = done.scratch
                    /\ pc' = IF pc.elapsed + params.dt < SCALE
                             THEN [pc EXCEPT !.fld = 0, !.elapsed = @ + params.dt]
                             ELSE MovementLoopStart
                    /\ UNCHANGED latent_midge_density
    /\ UNCHANGED <<farms, state, input_vars, hist>>

\* 4. movement_transmission: one link per action
MovementTransmission ==
    /\ pc.phase = "movement"
    /\ \E o \in transmission_via_movement(farms, state, hist, state.movement_from[pc.k],
                                          state.movement_to[pc.k],
                                          state.movement_risk[pc.k], params) :
          farms' = o.farms /\ state' = o.state /\ hist' = o.hist
    /\ pc' = IF pc.k + 1 < state.num_movement_links
             THEN [pc EXCEPT !.k = @ + 1] ELSE FarmLoopStart
    /\ UNCHANGED <<grid_vars, input_vars>>

\* 5. the per-farm updates of farm pc.k
FarmGetWeather ==
    /\ pc.phase = "weather"
    /\ \E f \in farm_get_weather(farms[pc.k], state.simulation_day) :
          farms' = [farms EXCEPT ![pc.k] = f]
    /\ pc' = [pc EXCEPT !.phase = "deaths"]
    /\ UNCHANGED <<state, grid_vars, input_vars, hist>>

FarmDeathsAndRecoveries ==
    /\ pc.phase = "deaths"
    /\ \E o \in farm_deaths_and_recoveries(farms, state, hist, pc.k, params) :
          farms' = o.farms /\ state' = o.state /\ hist' = o.hist
    /\ pc' = [pc EXCEPT !.phase = "m2h"]
    /\ UNCHANGED <<grid_vars, input_vars>>

FarmTransmissionMidgesToHosts ==
    /\ pc.phase = "m2h"
    /\ \E o \in farm_transmission_midges_to_hosts(farms, state, pc.k, params,
                                                  inf_midge_density) :
          farms' = o.farms /\ state' = o.state
    /\ pc' = [pc EXCEPT !.phase = "h2m"]
    /\ UNCHANGED <<grid_vars, input_vars, hist>>

FarmTransmissionHostsToMidges ==
    /\ pc.phase = "h2m"
    /\ latent_midge_density' =
           farm_transmission_hosts_to_midges(farms[pc.k], state, params, latent_midge_density)
    /\ pc' = IF pc.k + 1 < state.num_farms
             THEN [pc EXCEPT !.phase = "weather", !.k = @ + 1]
             ELSE [pc EXCEPT !.phase = "advance", !.k = 0]
    /\ UNCHANGED <<farms, state, inf_midge_density, diffusion_soln_grid, input_vars, hist>>

\* 6. the clock; simulate_day returns
AdvanceTime ==
    /\ pc.phase = "advance"
    /\ state' = advance_time(state)
    /\ pc' = [pc EXCEPT !.phase = "idle", !.calls = @ + 1]
    /\ UNCHANGED <<farms, grid_vars, input_vars, hist>>

Next ==
    \/ SimulateDayBegin
    \/ ControlMeasures
    \/ MidgeMortalityAndIncubation
    \/ MidgeDiffusionPass
    \/ MovementTransmission
    \/ FarmGetWeather
    \/ FarmDeathsAndRecoveries
    \/ FarmTransmissionMidgesToHosts
    \/ FarmTransmissionHostsToMidges
    \/ AdvanceTime

(***************************************************************************)
(* The runs checked: the loaded inputs are drawn from small sets           *)
(***************************************************************************)
NoFlags == [no_control |-> FALSE, no_farm_ban |-> FALSE, county_ban |-> FALSE,
            total_ban |-> FALSE, restriction_zones |-> FALSE]

Epi == [p_v |-> 1, p_h |-> 500, detection_prob |-> 500]

\* an outbreak on farm 0 under farm bans, with and without restriction zones,
\* over MaxCalls days from the eve of the season and from the end of the year;
\* and one day of the same outbreak with infectious midges over farm 0
Init ==
    \/ \E day0 \in {60, 363}, rz \in BOOLEAN :
          Load(day0, MaxCalls, [NoFlags EXCEPT !.restriction_zones = rz], 2500, 500,
               InfectedHerd, 0, 0, 1, 1000, 20000, 2, Epi)
    \/ Load(100, 1, NoFlags, 2500, 500, InfectedHerd, 1000, 0, 1, 1000, 20000, 2, Epi)

Spec == Init /\ [][Next]_vars

\* the same outbreak with control switched off, the other switches all clear or
\* all set
InitNoControl ==
    \E on \in BOOLEAN :
        Load(60, MaxCalls,
             [no_control |-> TRUE, no_farm_ban |-> FALSE, county_ban |-> on,
              total_ban |-> on, restriction_zones |-> on],
             2500, 500, InfectedHerd, 0, 0, 1, 1000, 20000, 2, Epi)

SpecNoControl == InitNoControl /\ [][Next]_vars

\* the same outbreak on a network whose links all have risk 0
InitRiskZero ==
    \E rz \in BOOLEAN :
        Load(60, MaxCalls, [NoFlags EXCEPT !.restriction_zones = rz], 2500, 0,
             InfectedHerd, 0, 0, 1, 1000, 20000, 2, Epi)

SpecRiskZero == InitRiskZero /\ [][Next]_vars

\* midges over farm 0 and no infection among the hosts (p_h = 0): diffusion
\* coefficients inside and outside 2 * D * dt <= h^2, whole and half days as
\* dt, both temperature grid widths
InitGrid ==
    \E D \in {1, 4}, dt \in {500, 1000}, width \in {1, 2}, latent0 \in {0, 1000} :
        Load(100, MaxCalls, NoFlags, 2500, 500, CleanHerd, 1000, latent0, D, dt, 20000,
             width, [Epi EXCEPT !.p_h = 0])

SpecGrid == InitGrid /\ [][Next]_vars

\* the outbreak with restriction zones enabled and the second farm exactly at
\* the protection radius, exactly at the surveillance radius, and beyond it
InitZones ==
    \E spacing \in {3000, 10000, 12000} :
        Load(60, MaxCalls, [NoFlags EXCEPT !.restriction_zones = TRUE], spacing, 500,
             InfectedHerd, 0, 0, 1, 1000, 20000, 2, Epi)

SpecZones == InitZones /\ [][Next]_vars

\* the outbreak in season with infectious midges over farm 0 and both
\* transmission probabilities zero
InitNoTransmission ==
    \E rz \in BOOLEAN :
        Load(100, MaxCalls, [NoFlags EXCEPT !.restriction_zones = rz], 2500, 500,
             InfectedHerd, 1000, 0, 1, 1000, 20000, 2, [Epi EXCEPT !.p_h = 0, !.p_v = 0])

SpecNoTransmission == InitNoTransmission /\ [][Next]_vars

\* the outbreak over the two days around each end of the season
InitSeason ==
    \E day0 \in {60, 329} :
        Load(day0, MaxCalls, NoFlags, 2500, 500, InfectedHerd, 0, 0, 1, 1000, 20000, 2, Epi)

SpecSeason == InitSeason /\ [][Next]_vars

\* the midge grid over temperature cells narrower than, as wide as, and wider
\* than the midge cells; simulate_day runs its steps one after the other, so
\* a step that can run does run
InitWidths ==
    \E dt \in {500, 1000}, width \in {1, 2, 3}, latent0 \in {0, 1000} :
        Load(100, MaxCalls, NoFlags, 2500, 500, CleanHerd, 1000, latent0, 1, dt, 20000,
             width, [Epi EXCEPT !.p_h = 0])

SpecWidths == InitWidths /\ [][Next]_vars /\ WF_vars(Next)

\* runs that start on the last day of the first year and pass day 365: the
\* outbreak without midges, and a seeded midge grid with clean herds
InitYearEnd ==
    \/ Load(364, MaxCalls, NoFlags, 2500, 500, InfectedHerd, 0, 0, 1, 1000, 20000, 2, Epi)
    \/ Load(364, MaxCalls, NoFlags, 2500, 500, CleanHerd, 1000, 0, 1, 1000, 20000, 2,
            [Epi EXCEPT !.p_h = 0])

SpecYearEnd == InitYearEnd /\ [][Next]_vars

\* the outbreak with restriction zones enabled and one farm more: the infected
\* farm, a farm inside the surveillance radius and a farm beyond it, with and
\* without the farm-level ban
InitBlocking ==
    \E no_farm_ban \in BOOLEAN :
        LoadFarms(NumFarms + 1, 60, MaxCalls,
                  [NoFlags EXCEPT !.restriction_zones = TRUE, !.no_farm_ban = no_farm_ban],
                  6000, 500, InfectedHerd, 0, 0, 1, 1000, 20000, 2, Epi)

SpecBlocking == InitBlocking /\ [][Next]_vars

\* the outbreak out of the midge season over one day more, with and without
\* restriction zones: the day of the detection, the day the control step acts
\* on it, and a day after
InitLatch ==
    \E rz \in BOOLEAN :
        Load(340, MaxCallsControl, [NoFlags EXCEPT !.restriction_zones = rz], 2500, 500,
             InfectedHerd, 0, 0, 1, 1000, 20000, 2,
             [Epi EXCEPT !.p_h = 0, !.detection_prob = 999])

SpecLatch == InitLatch /\ [][Next]_vars

\* the outbreak with the farm-level ban suppressed and the second farm within
\* ban_radius of the first, with and without restriction zones
InitNoFarmBan ==
    \E rz \in BOOLEAN :
        Load(60, MaxCalls, [NoFlags EXCEPT !.no_farm_ban = TRUE, !.restriction_zones = rz],
             2500, 500, InfectedHerd, 0, 0, 1, 1000, 20000, 2, Epi)

SpecNoFarmBan == InitNoFarmBan /\ [][Next]_vars

(***************************************************************************)
(* Properties                                                              *)
(***************************************************************************)
\* simulate_day has returned (or has not been called yet)
AtDayBoundary == pc.phase = "idle"

\* S + sum of the infectious stages + R of one species on farm k
Total(fs, k, sp) ==
    IF sp = "sheep" THEN num_sheep(fs[k], params.num_inf_stages_sheep)
    ELSE num_cattle(fs[k], params.num_inf_stages_cattle)

\* the population the roster gave farm k
LoadPopulation(k, sp) ==
    IF sp = "sheep" THEN farms[k].number_of_sheep ELSE farms[k].number_of_cattle

Compartments(f) ==
    {f.s_sheep, f.r_sheep, f.s_cattle, f.r_cattle}
    \cup {f.i_sheep[n] : n \in DOMAIN f.i_sheep} \cup {f.i_cattle[n] : n \in DOMAIN f.i_cattle}

C2_PopulationAsLoaded ==
    AtDayBoundary =>
        \A k \in FarmIds, sp \in Species : Total(farms, k, sp) = LoadPopulation(k, sp)

\* C2 as the code has it: at every day boundary every farm holds, of each
\* species, the population it was loaded with, plus the infected animals moved
\* in, minus those moved out, minus (sheep) the disease deaths.
C2_PopulationAccounted ==
    AtDayBoundary =>
        \A k \in FarmIds, sp \in Species :
            Total(farms, k, sp) = LoadPopulation(k, sp) + hist.moved_in[k][sp]
                                  - hist.moved_out[k][sp]
                                  - (IF sp = "sheep" THEN hist.deaths[k] ELSE 0)

\* a day has ended on which a farm received infected cattle and a sheep died
C2_Witness ==
    /\ AtDayBoundary
    /\ \E k \in FarmIds : hist.moved_in[k]["cattle"] > 0
    /\ \E k \in FarmIds : hist.deaths[k] > 0

\* C3: in every step, for every farm and species, the change of
\* S + sum I + R is the infected animals moved in, minus those moved out, minus
\* (sheep) the deaths of that step.  Only the movement step moves animals; the
\* deaths-and-recoveries step of a farm changes that farm's sheep total by the
\* deaths it adds to num_sheep_deaths and no other total, so recovery and stage
\* progression change none; the midge-to-host step changes no total.
C3_TotalsFollowMovesAndDeaths ==
    [][\A k \in FarmIds, sp \in Species :
        LET change == Total(farms', k, sp) - Total(farms, k, sp)
            came == hist'.moved_in[k][sp] - hist.moved_in[k][sp]
            left == hist'.moved_out[k][sp] - hist.moved_out[k][sp]
            died == state'.num_sheep_deaths - state.num_sheep_deaths
        IN  /\ pc.phase = "movement" => change = came - left
            /\ pc.phase = "deaths" =>
                  change = IF sp = "sheep" /\ k = pc.k THEN -died ELSE 0
            /\ pc.phase \notin {"movement", "deaths"} => change = 0
            /\ pc.phase # "movement" => came = 0 /\ left = 0]_vars

\* the midge-to-host step of a day has infected an animal, after a movement of
\* infected animals and a death
C3_Witness ==
    /\ pc.phase = "h2m"
    /\ state.num_sheep_infected_today + state.num_cattle_infected_today > 0
    /\ state.num_sheep_deaths > 0
    /\ state.num_movement_transmissions > 0

\* C4: at every day boundary every compartment of every farm is >= 0.
C4_CompartmentsNonNegative ==
    AtDayBoundary => \A k \in FarmIds : \A c \in Compartments(farms[k]) : c >= 0

\* C5: whenever btv_observed is set, first_detected_farm_id is the index of a
\* farm whose ever_been_detected flag is set.
C5_FirstDetectedFarmIsMarked ==
    state.btv_observed =>
        /\ state.first_detected_farm_id \in FarmIds
        /\ farms[state.first_detected_farm_id].ever_been_detected

\* the first detection was on farm 1, which the infection reached by a movement
C5_Witness == state.btv_observed /\ state.first_detected_farm_id = 1

\* C6: a step taken with btv_observed set leaves it set and leaves
\* first_detected_farm_id as it is.
C6_FirstDetectionLatched ==
    [][state.btv_observed =>
          /\ state'.btv_observed
          /\ state'.first_detected_farm_id = state.first_detected_farm_id]_vars

\* a second farm went through the detection trigger after the first one
C6_Witness ==
    /\ state.btv_observed
    /\ \E k \in FarmIds : k # state.first_detected_farm_id /\ farms[k].ever_been_detected

\* C7: with no_control set no farm is movement_banned, in a protection zone or
\* in a surveillance zone (none is when the run starts).
C7_NoControlNoRestrictions ==
    params.no_control =>
        \A k \in FarmIds : /\ ~farms[k].movement_banned
                           /\ ~farms[k].protection_zone
                           /\ ~farms[k].surveillance_zone

\* the control step of the day after a detection has run with no_control set
C7_Witness ==
    /\ params.no_control
    /\ pc.calls >= 1 /\ pc.phase = "mortality"
    /\ \E k \in FarmIds : farms[k].detected

\* C8: when every link has risk 0 no animal is moved and
\* num_movement_transmissions and interrupted_movements stay 0.
C8_RiskZeroNoMovement ==
    (\A n \in DOMAIN state.movement_risk : state.movement_risk[n] = 0) =>
        /\ state.num_movement_transmissions = 0
        /\ state.interrupted_movements = 0
        /\ \A k \in FarmIds, sp \in Species :
              hist.moved_in[k][sp] = 0 /\ hist.moved_out[k][sp] = 0

\* C9: after every simulate_day every cell of the infectious grid and of every
\* latent stage is >= 0.
C9_DensitiesNonNegative ==
    AtDayBoundary =>
        \A i \in Rows, j \in Cols :
            /\ inf_midge_density[i][j] >= 0
            /\ \A k \in 0 .. params.num_eip_stages - 1 : latent_midge_density[i][j][k] >= 0

\* C10: the scratch grid is zero in every cell before and after every pass of
\* the diffusion sub-step (the passes are the only steps that write it).
C10_ScratchGridZero ==
    \A i \in Rows, j \in Cols : diffusion_soln_grid[i][j] = 0
\* the zone flags of every farm
ZoneFlags(fs) == [k \in FarmIds |-> <<fs[k].protection_zone, fs[k].surveillance_zone>>]

\* the counters of active surveillance and the two once-only latches
SurveillanceCounters(st) ==
    <<st.num_farms_checked, st.num_tests, st.num_pos_tests,
      st.restriction_zones_implemented, st.active_surveillance_performed>>

\* C11: no step but the control step changes a zone flag or a surveillance
\* counter, so none changes on the day of the first detection, which happens
\* in the per-farm phase; the control step that finds btv_observed set for the
\* first time performs active surveillance and, if restriction_zones is
\* enabled, sets up the zones around the first detected farm; so both are in
\* place whenever the midge and movement steps of a day run after a detection.
C11_ControlActsOnPreviousDay ==
    /\ [][/\ pc.phase # "control" =>
                /\ ZoneFlags(farms') = ZoneFlags(farms)
                /\ SurveillanceCounters(state') = SurveillanceCounters(state)
          /\ (/\ pc.phase = "control" /\ ~params.no_control
              /\ state.btv_observed /\ ~state.active_surveillance_performed) =>
                /\ state'.active_surveillance_performed
                /\ state'.num_farms_checked > state.num_farms_checked
                /\ params.restriction_zones =>
                      /\ state'.restriction_zones_implemented
                      /\ farms'[state.first_detected_farm_id].protection_zone]_vars
    /\ []((/\ pc.phase \in {"mortality", "diffusion", "movement"}
           /\ state.btv_observed /\ ~params.no_control) =>
                /\ state.active_surveillance_performed
                /\ params.restriction_zones => state.restriction_zones_implemented)

\* the movements of the day after the first detection are about to be
\* processed, with the zones in place and the surveillance done
C11_Witness ==
    /\ pc.phase = "movement" /\ pc.k = 0 /\ pc.calls = 1
    /\ state.restriction_zones_implemented /\ state.active_surveillance_performed
    /\ state.num_farms_checked > 0
\* C12: in the control step that implements the restriction zones around the
\* first detected farm c, every farm with d^2 <= pz_radius^2 ends with
\* protection_zone set and free_area clear, every farm with
\* pz_radius^2 < d^2 <= sz_radius^2 ends with surveillance_zone set and
\* free_area clear, and every farm beyond sz_radius keeps its two zone flags
\* and free_area.
C12_ZonesByDistance ==
    [][(~state.restriction_zones_implemented /\ state'.restriction_zones_implemented) =>
          \A k \in FarmIds :
              LET c == state.first_detected_farm_id
                  dx == farms[k].x[1] - farms[c].x[1]
                  dy == farms[k].x[2] - farms[c].x[2]
                  d2 == dx * dx + dy * dy
                  pz2 == params.pz_radius * params.pz_radius
                  sz2 == params.sz_radius * params.sz_radius
              IN  /\ d2 <= pz2 => farms'[k].protection_zone /\ ~farms'[k].free_area
                  /\ (pz2 < d2 /\ d2 <= sz2) =>
                        farms'[k].surveillance_zone /\ ~farms'[k].free_area
                  /\ d2 > sz2 =>
                        /\ farms'[k].protection_zone = farms[k].protection_zone
                        /\ farms'[k].surveillance_zone = farms[k].surveillance_zone
                        /\ farms'[k].free_area = farms[k].free_area]_vars

\* the zones are set up and the farm at the surveillance radius is in the
\* surveillance zone, not in the protection zone
C12_Witness ==
    /\ state.restriction_zones_implemented
    /\ \E k \in FarmIds : farms[k].surveillance_zone /\ ~farms[k].protection_zone
    /\ farms[state.first_detected_farm_id].protection_zone
\* the season of host-to-midge transmission: 60 < day of the year < 330
InSeason == state.day_of_year > 60 /\ state.day_of_year < 330

\* C13: with p_h = 0 and p_v = 0 the daily infection counters are 0 in every
\* state, no step lowers the susceptible count of a species on a farm, and the
\* host-to-midge step leaves both midge grids as they are.
C13_NoTransmissionAtZero ==
    /\ []((params.p_h = 0 /\ params.p_v = 0) =>
              /\ state.num_sheep_infected_today = 0
              /\ state.num_cattle_infected_today = 0)
    /\ [][(params.p_h = 0 /\ params.p_v = 0) =>
              /\ \A k \in FarmIds : /\ farms'[k].s_sheep >= farms[k].s_sheep
                                    /\ farms'[k].s_cattle >= farms[k].s_cattle
              /\ pc.phase = "h2m" =>
                    /\ latent_midge_density' = latent_midge_density
                    /\ inf_midge_density' = inf_midge_density]_vars

\* the host-to-midge step has run in season for a farm that holds infected and
\* susceptible animals and has infectious midges over it
C13_Witness ==
    /\ params.p_h = 0 /\ params.p_v = 0
    /\ pc.phase = "weather" /\ pc.k = 1 /\ InSeason
    /\ inf_midge_density[farms[0].midge_grid_y][farms[0].midge_grid_x] > 0
    /\ num_inf_sheep(farms[0], params.num_inf_stages_sheep)
       + num_inf_cattle(farms[0], params.num_inf_stages_cattle) > 0
    /\ farms[0].s_sheep > 0 /\ farms[0].s_cattle > 0
\* the infected animals of both species on farm k
Infected(fs, k) == num_inf_cattle(fs[k], params.num_inf_stages_cattle)
                   + num_inf_sheep(fs[k], params.num_inf_stages_sheep)

\* the host compartments of farm k
Herd(fs, k) == <<fs[k].s_sheep, fs[k].i_sheep, fs[k].r_sheep,
                 fs[k].s_cattle, fs[k].i_cattle, fs[k].r_cattle>>

BitesPerAnimal(f) ==
    LET bites == params.transmission_scalar
                 * exp(f.v_intercept + Mul(f.temp_eff, f.temp_today)
                       + Mul(Mul(f.temp_eff_sq, f.temp_today), f.temp_today)
                       + f.overdispersion)
    IN  IF bites > MAX_BITES * SCALE THEN MAX_BITES * SCALE ELSE bites

\* C15: the host-to-midge step of a farm changes no cell of the midge grids on
\* a day with day_of_year <= 60 or >= 330; on a day in season it adds
\* p_v * effI * min(5000, bites) to latent stage 0 of the farm's own midge cell
\* and changes no other cell or stage, nor the infectious grid.
C15_SeasonGate ==
    [][pc.phase = "h2m" =>
          LET f == farms[pc.k]
              effI == eff_num_inf_animals(f, params.preference_for_sheep,
                          params.num_inf_stages_cattle, params.num_inf_stages_sheep)
              deposit == Mul(params.p_v * effI, BitesPerAnimal(f))
          IN  /\ inf_midge_density' = inf_midge_density
              /\ \A i \in Rows, j \in Cols, n \in 0 .. params.num_eip_stages - 1 :
                    latent_midge_density'[i][j][n] =
                        latent_midge_density[i][j][n]
                        + (IF /\ InSeason /\ n = 0
                              /\ i = f.midge_grid_y /\ j = f.midge_grid_x
                           THEN deposit ELSE 0)]_vars

\* on day 329, the last of the season, the infected farm 0 has deposited latent
\* midges in its cell
C15_Witness ==
    /\ pc.phase = "weather" /\ pc.k = 1 /\ state.day_of_year = 329
    /\ latent_midge_density[farms[0].midge_grid_y][farms[0].midge_grid_x][0] > 0
\* C16: every call of simulate_day runs to completion whenever both cell widths
\* and dt are positive: a day that has begun is never left at a step that
\* cannot finish.
C16_EveryDayCompletes == AtDayBoundary \/ ENABLED Next
\* C17: every read of the weather grids is made at an index within 0..364, so
\* it returns the entry stored for the cell: the per-farm weather read leaves
\* the grid's temperature of the farm's cell in temp_today, and the midge
\* mortality step is computed from the grid's temperatures of the cells it
\* visits, also in runs that pass day 365.
C17_ReadsWithinYear ==
    [][/\ pc.phase = "weather" =>
             farms'[pc.k].temp_today
                 = temp_grid[farms[pc.k].temp_grid_y][farms[pc.k].temp_grid_x]
       /\ pc.phase = "mortality" =>
             LET live == LiveCells(Stride(params), latent_midge_density,
                                   inf_midge_density, params.num_eip_stages)
                 done == midge_mortality_and_incubation(latent_midge_density,
                             inf_midge_density, [c \in live |-> temp_grid[c[1]][c[2]]],
                             params.num_eip_stages)
             IN  latent_midge_density' = done.lat /\ inf_midge_density' = done.inf]_vars
\* C18: when the per-farm deaths-and-recoveries step of a farm makes the farm
\* detected, btv_observed is true afterwards, and if it was not before,
\* first_detected_farm_id is that farm; this under every control configuration.
C18_DetectionSetsObserved ==
    [][(/\ pc.phase = "deaths"
        /\ ~farms[pc.k].detected
        /\ farms'[pc.k].detected)
       => /\ state'.btv_observed
          /\ ~state.btv_observed => state'.first_detected_farm_id = farms[pc.k].id]_vars
\* whether some infectious stage of farm f holds an animal
HoldsInfected(f) ==
    \/ \E n \in 0 .. params.num_inf_stages_sheep - 1 : f.i_sheep[n] > 0
    \/ \E n \in 0 .. params.num_inf_stages_cattle - 1 : f.i_cattle[n] > 0

\* whether the infected count of farm f, as num_inf_cattle + num_inf_sheep
\* compute it, is positive
InfectedCountPositive(f) ==
    num_inf_cattle(f, params.num_inf_stages_cattle)
    + num_inf_sheep(f, params.num_inf_stages_sheep) > 0

\* the step of one movement edge: the edge is blocked exactly when an endpoint
\* is movement_banned, or the source is in a protection zone and the
\* destination is not, or the source is in a surveillance zone and the
\* destination is a free area.  The step of a blocked edge changes no farm and
\* not num_movement_transmissions; it adds 1 to interrupted_movements if the
\* movement fires, and then 1 to num_risky_moves_blocked iff risky_source[source].
\* The step of an edge that is not blocked changes neither counter.
BlockedMoveStep(risky_source) ==
    pc.phase = "movement" =>
        LET from == state.movement_from[pc.k]
            src == farms[from]
            dst == farms[state.movement_to[pc.k]]
            blocked == \/ src.movement_banned \/ dst.movement_banned
                       \/ src.protection_zone /\ ~dst.protection_zone
                       \/ src.surveillance_zone /\ dst.free_area
            interrupted == state'.interrupted_movements - state.interrupted_movements
            risky == state'.num_risky_moves_blocked - state.num_risky_moves_blocked
        IN  IF blocked
            THEN /\ farms' = farms
                 /\ hist' = hist
                 /\ state'.num_movement_transmissions = state.num_movement_transmissions
                 /\ interrupted \in {0, 1}
                 /\ risky = IF risky_source[from] THEN interrupted ELSE 0
            ELSE interrupted = 0 /\ risky = 0

\* C19: a movement is blocked exactly when an endpoint is movement_banned, or
\* the source is in a protection zone and the destination is not, or the source
\* is in a surveillance zone and the destination is a free area; a blocked move
\* transfers no animal, adds 1 to interrupted_movements, and adds 1 to
\* num_risky_moves_blocked iff the source holds an infected animal.
C19_BlockedMoves ==
    [][BlockedMoveStep([k \in FarmIds |-> HoldsInfected(farms[k])])]_vars

\* C19, with the source's infected count being positive in the place of the
\* source holding an infected animal
C19_BlockedMovesByCount ==
    [][BlockedMoveStep([k \in FarmIds |-> InfectedCountPositive(farms[k])])]_vars

\* no farm is banned, and the zones alone have blocked two movements out of
\* infected farms: one out of the protection zone and one out of the
\* surveillance zone into the free area
C19_ZonesBlockRiskyMoves ==
    /\ \A k \in FarmIds : ~farms[k].movement_banned
    /\ state.interrupted_movements = 2
    /\ state.num_risky_moves_blocked = 2
    /\ \E k \in FarmIds : farms[k].surveillance_zone /\ HoldsInfected(farms[k])
    /\ \E k \in FarmIds : farms[k].free_area
\* C20: once a control step has set up the zones or performed active
\* surveillance, no control step changes a protection_zone, surveillance_zone
\* or detected flag or num_farms_checked, num_tests or num_pos_tests, with
\* restriction_zones enabled or not.
C20_ControlRunsOnce ==
    [][(/\ pc.phase = "control"
        /\ \/ state.restriction_zones_implemented
           \/ state.active_surveillance_performed
           \/ state.num_farms_checked > 0)
       => /\ ZoneFlags(farms') = ZoneFlags(farms)
          /\ \A k \in FarmIds : farms'[k].detected = farms[k].detected
          /\ state'.num_farms_checked = state.num_farms_checked
          /\ state'.num_tests = state.num_tests
          /\ state'.num_pos_tests = state.num_pos_tests]_vars

\* two days are over and the third day's control step is about to run, without
\* restriction zones, after an earlier one performed active surveillance
C20_Witness ==
    /\ pc.phase = "control" /\ pc.calls = 2
    /\ ~params.restriction_zones
    /\ state.active_surveillance_performed
    /\ state.num_farms_checked > 0
\* C21: with no_farm_ban set and county_ban and total_ban not, no farm is ever
\* movement_banned, neither the detected farm nor a farm within ban_radius of
\* it; and the control step that acts on the first detection with
\* restriction_zones enabled still puts every farm within pz_radius of the
\* first detected farm in the protection zone.
C21_NoFarmBanKeepsZones ==
    [][(params.no_farm_ban /\ ~params.county_ban /\ ~params.total_ban) =>
          /\ \A k \in FarmIds : ~farms[k].movement_banned /\ ~farms'[k].movement_banned
          /\ (/\ pc.phase = "control" /\ params.restriction_zones
              /\ state.btv_observed /\ ~state.restriction_zones_implemented) =>
                \A k \in FarmIds :
                    dist_sq(farms[k], farms[state.first_detected_farm_id])
                        <= params.pz_radius * params.pz_radius
                    => farms'[k].protection_zone /\ ~farms'[k].free_area]_vars

\* with no_farm_ban set a farm has been detected with another farm within
\* ban_radius on its list, and the control step has put both in the protection
\* zone
C21_Witness ==
    /\ params.no_farm_ban /\ ~params.county_ban /\ ~params.total_ban
    /\ \E k \in FarmIds : /\ farms[k].detected /\ farms[k].ever_been_detected
                          /\ Len(farms[k].local_farm_ids) > 0
    /\ \A k \in FarmIds : farms[k].protection_zone
\* C22: the mortality/EIP step updates every cell of the midge grid once, each
\* with the survival factor and EIP progression of the temperature read for
\* the block it lies in (the block of cell (i, j) starts at the multiples of
\* the stride below i and j); no cell is left untouched.
C22_EveryCellUpdated ==
    [][pc.phase = "mortality" =>
          LET R == Stride(params)
          IN  \A i \in Rows, j \in Cols :
                 \E temp \in temp_grid_read(i - (i % R), j - (j % R), state.simulation_day) :
                    LET done == mortality_and_incubation_cell(latent_midge_density[i][j],
                                    inf_midge_density[i][j], temp, params.num_eip_stages)
                    IN  /\ latent_midge_density'[i][j] = done.lat
                        /\ inf_midge_density'[i][j] = done.inf]_vars
\* C23: no farm is in a protection zone and in a surveillance zone at once,
\* and every farm in either zone has free_area false.
C23_ZonesExclusive ==
    \A k \in FarmIds :
        /\ ~(farms[k].protection_zone /\ farms[k].surveillance_zone)
        /\ (farms[k].protection_zone \/ farms[k].surveillance_zone) => ~farms[k].free_area

\* the zones are set up with one farm in the protection zone and another in
\* the surveillance zone
C23_Witness ==
    /\ state.restriction_zones_implemented
    /\ \E k, j \in FarmIds : /\ farms[k].protection_zone /\ ~farms[k].free_area
                             /\ farms[j].surveillance_zone /\ ~farms[j].free_area
\* C24: no step clears a detected flag; num_farms_detected_today goes up only
\* in the deaths-and-recoveries step of a farm, by 1, and only as that farm
\* goes from undetected to detected, so that no farm is counted twice in a
\* run; and the counter never exceeds the number of farms that were undetected
\* when the day began.
C24_DetectedOnce ==
    [][LET counted == state'.num_farms_detected_today - state.num_farms_detected_today
       IN  /\ \A k \in FarmIds : farms[k].detected => farms'[k].detected
           /\ counted <= 1
           /\ counted = 1 => /\ pc.phase = "deaths"
                             /\ ~farms[pc.k].detected /\ farms'[pc.k].detected
           /\ state.num_farms_detected_today <= hist.undetected_at_start
           /\ state'.num_farms_detected_today <= hist'.undetected_at_start]_vars

\* both farms, undetected when the day began, have been detected and counted
\* on the same day
C24_Witness ==
    /\ pc.phase = "advance"
    /\ hist.undetected_at_start = Cardinality(FarmIds)
    /\ state.num_farms_detected_today = Cardinality(FarmIds)
    /\ \A k \in FarmIds : farms[k].detected
\* C25: with no_control and no_farm_ban both off, at every day boundary every
\* detected farm is movement_banned and has ever_been_detected set, whichever
\* way it was detected.
C25_DetectedFarmsBanned ==
    (~params.no_control /\ ~params.no_farm_ban /\ AtDayBoundary) =>
        \A k \in FarmIds :
            farms[k].detected => farms[k].movement_banned /\ farms[k].ever_been_detected

\* C25, amended: with no_control and no_farm_ban both off, a farm that becomes
\* detected in its deaths-and-recoveries step (by a sheep death or by passive
\* detection) is movement_banned and has ever_been_detected set when the step
\* ends, and no step clears either flag, so both hold at every later day
\* boundary; the control step, where active surveillance detects, changes
\* neither flag of any farm.
C25_TriggerDetectedFarmsBanned ==
    [][(~params.no_control /\ ~params.no_farm_ban) =>
          \A k \in FarmIds :
              /\ (pc.phase = "deaths" /\ ~farms[k].detected /\ farms'[k].detected)
                     => farms'[k].movement_banned /\ farms'[k].ever_been_detected
              /\ farms[k].movement_banned => farms'[k].movement_banned
              /\ farms[k].ever_been_detected => farms'[k].ever_been_detected
              /\ pc.phase = "control" =>
                     /\ farms'[k].movement_banned = farms[k].movement_banned
                     /\ farms'[k].ever_been_detected = farms[k].ever_been_detected]_vars

\* at a day boundary one farm, detected by a trigger, is banned, and another,
\* detected by active surveillance, is not
C25_Witness ==
    /\ ~params.no_control /\ ~params.no_farm_ban /\ AtDayBoundary
    /\ \E k, j \in FarmIds :
          /\ farms[k].detected /\ farms[k].movement_banned /\ farms[k].ever_been_detected
          /\ farms[j].detected /\ ~farms[j].movement_banned /\ ~farms[j].ever_been_detected
\* the cumulative counters of the run
CumulativeCounters(st) ==
    <<st.interrupted_movements, st.num_risky_moves_blocked, st.num_movement_transmissions,
      st.num_farms_checked, st.num_tests, st.num_pos_tests>>

=============================================================================
